---- MODULE Spec2Model ----
(***************************************************************************)
(* The Stroop trial runner of CogLab: the StroopTask React component       *)
(* (client/src/components/tasks/stroop-task.tsx and its AI-monitoring      *)
(* variant) together with the callbacks the participant page hands to it.  *)
(*                                                                         *)
(* React state is modelled as variables.  A callback closes over the       *)
(* state of the render that created it, so a pending setTimeout carries    *)
(* the value of currentTrial its startTrial closure was created with.      *)
(* State updates requested after the component was unmounted are dropped,  *)
(* as React drops them.                                                    *)
(***************************************************************************)
EXTENDS Integers, Sequences, FiniteSets, TLC

\* ---------------------------------------------------------------- bounds
MaxTrials == 2          \* longest stimulus sequence explored
MaxTime == 2            \* the clock runs over 0..MaxTime
ResponseWindow == 1     \* config.timings.responseWindow, in clock units

MaxGenTrials == 10      \* largest trial count a generated config asks for
MaxTapeLen == 2         \* longest period of the Math.random() tape
RandomUnit == 4         \* Math.random() returns a multiple of 1/RandomUnit

\* ------------------------------------------------------------- constants
COLOR_NAMES == <<"red", "green", "blue", "yellow">>

COLORS ==
  [c \in {"red", "green", "blue", "yellow"} |->
     CASE c = "red"    -> [name |-> "red",    hex |-> "#dc2626", key |-> "r"]
       [] c = "green"  -> [name |-> "green",  hex |-> "#16a34a", key |-> "g"]
       [] c = "blue"   -> [name |-> "blue",   hex |-> "#2563eb", key |-> "b"]
       [] c = "yellow" -> [name |-> "yellow", hex |-> "#eab308", key |-> "y"]]

\* Object.values(COLORS).map(c => c.key)
validKeys == {COLORS[c].key : c \in DOMAIN COLORS}

\* String.prototype.toUpperCase on the colour names
toUpperCase(s) ==
  CASE s = "red" -> "RED" [] s = "green" -> "GREEN"
    [] s = "blue" -> "BLUE" [] s = "yellow" -> "YELLOW"
    [] s = "Red" -> "RED" [] OTHER -> s

\* String.prototype.toLowerCase on the keys a keyboard event can carry, on
\* the colour values of pre-supplied stimuli and on the names of images
toLowerCase(s) ==
  CASE s = "R" -> "r" [] s = "G" -> "g" [] s = "B" -> "b" [] s = "Y" -> "y"
    [] s = "Blue" -> "blue" [] s = "#16A34A" -> "#16a34a"
    [] s = "Apple" -> "apple" [] s = "Car" -> "car" [] s = "Book" -> "book"
    [] s = "Lion" -> "lion" [] s = "Bear" -> "bear"
    [] OTHER -> s

\* the keys the participant presses in the model (event.key)
InputKeys == {"G", "x"}

NEUTRAL_WORDS == <<"XXXX", "####", "****", "||||">>

\* One stimulus as generateStimuli builds it from the condition, the colour
\* drawn for display and the second draw: the other colour whose name is the
\* word of an incongruent trial, or the neutral word of a neutral trial.
MakeStimulus(condition, colorName, drawn) ==
  IF condition = "congruent"
  THEN [word |-> toUpperCase(colorName), color |-> COLORS[colorName].hex,
        condition |-> "congruent", correctResponse |-> COLORS[colorName].key]
  ELSE IF condition = "incongruent"
  THEN [word |-> toUpperCase(drawn), color |-> COLORS[colorName].hex,
        condition |-> "incongruent", correctResponse |-> COLORS[colorName].key]
  ELSE [word |-> drawn, color |-> COLORS[colorName].hex,
        condition |-> "neutral", correctResponse |-> COLORS[colorName].key]

\* The stimuli the sequences of the model are drawn from.
StimulusPool ==
  { MakeStimulus("congruent", "red", "red"),
    MakeStimulus("incongruent", "green", "blue") }

\* useState<StroopStimulus | null>(null)
NoStimulus == [word |-> "", color |-> "", condition |-> "null", correctResponse |-> ""]

SeqsUpTo(S, n) == UNION {[1..m -> S] : m \in 0..n}

VARIABLES
  variant,          \* "sync": stroop-task.tsx; "fetch": the variant that POSTs itself
  stimuli,          \* useState<StroopStimulus[]>, as set by generateStimuli
  phase,            \* "mounted" | "aborted" | "closed": is the component rendered
  showInstructions,
  currentTrial,
  currentStimulus,
  showStimulus,
  trialStartTime,
  responses,
  aiWarnings,       \* aiWarnings.length > 0
  timers,           \* pending setTimeout(startTrial): the currentTrial each closure saw
  delivery,         \* per outcome: where its notification stands, POSTs made
  presented,        \* history: index into stimuli of every presentation
  completeCalls,    \* history: number of onComplete() calls
  failureSeen,      \* history: some notification attempt has failed
  now,              \* Date.now()
  config,           \* the config prop of the task (the experiment block)
  tape,             \* the values Math.random() returns, in quarters, cyclically
  genDone,          \* the effect that calls setStimuli(generateStimuli()) has run
  stored,           \* the responses the analysis route hands to the analyzer
  analysis,         \* the result analyzeExperimentData returned, once it has
  rows,             \* MemStorage.responses, in insertion order
  replies,          \* history: what POST /api/responses answered, per request
  experimentBlocks, \* session.study.experimentBlocks: the type of each block
  participant,      \* participant !== null: the session has been started
  currentBlockIndex,
  isCompleted,
  recallConfig,     \* the config prop of the image recall task
  taskPhase,        \* useState<Phase>: the phase of the image recall task
  studyImages,      \* the names of the images to study, in the order shown
  currentImageIndex,
  recallResponses,
  timeRemaining,    \* milliseconds
  summary           \* history: the accuracy finishRecall has reported

vars == <<variant, stimuli, phase, showInstructions, currentTrial, currentStimulus,
          showStimulus, trialStartTime, responses, aiWarnings, timers, delivery,
          presented, completeCalls, failureSeen, now, config, tape, genDone,
          stored, analysis, rows, replies,
          experimentBlocks, participant, currentBlockIndex, isCompleted,
          recallConfig, taskPhase, studyImages, currentImageIndex, recallResponses,
          timeRemaining, summary>>

\* what only the stimulus-generating effect reads or writes
genVars == <<config, tape, genDone>>

\* what only the analyzer reads or writes
analysisVars == <<stored, analysis>>

\* what only the response endpoint of the server reads or writes
serverVars == <<rows, replies>>

\* what only the participant page reads or writes
viewVars == <<experimentBlocks, participant, currentBlockIndex, isCompleted>>

\* what only the image recall task reads or writes
recallVars == <<recallConfig, taskPhase, studyImages, currentImageIndex, recallResponses,
                timeRemaining, summary>>

\* everything outside the Stroop task and the analyzer
siteVars == <<serverVars, viewVars, recallVars>>

\* the server has stored nothing and answered nothing
serverIdle == rows = <<>> /\ replies = <<>>

\* nobody has opened the participant page
viewIdle ==
  /\ experimentBlocks = <<>>
  /\ participant = FALSE
  /\ currentBlockIndex = 0
  /\ isCompleted = FALSE

\* finishRecall has reported nothing
NoSummary == [sent |-> FALSE, correct |-> 0, total |-> 0]

\* no image recall task is mounted
recallIdle ==
  /\ recallConfig = [images |-> 0, trialCount |-> 0, aiImages |-> <<>>,
                     recallTime |-> 0, responseWindow |-> 0]
  /\ taskPhase = "instructions"
  /\ studyImages = <<>>
  /\ currentImageIndex = 0
  /\ recallResponses = <<>>
  /\ timeRemaining = 0
  /\ summary = NoSummary

siteIdle == serverIdle /\ viewIdle /\ recallIdle

\* no analysis has been asked for
NoAnalysis ==
  [done |-> FALSE, meanResponseTime |-> 0, accuracy |-> 0, outlierCount |-> 0,
   qualityScore |-> 0, stroopEffect |-> [present |-> FALSE, value |-> 0]]

runState == <<currentTrial, currentStimulus, showStimulus, trialStartTime, responses>>

\* ------------------------------------------------- the stimulus generator

\* the n-th value Math.random() returns (n counts from 0), in units of
\* 1/RandomUnit
rnd(tp, n) == tp[(n % Len(tp)) + 1]

\* Math.floor(Math.random() * m)
randomIndex(tp, n, m) == (rnd(tp, n) * m) \div RandomUnit

\* COLOR_NAMES.filter(c => c !== colorName)
differentColorNames(colorName) == SelectSeq(COLOR_NAMES, LAMBDA c : c # colorName)

\* part_004: config.trialCount || config.trials || 60; stroop-task.tsx reads
\* config.trials.  A missing number and 0 are both falsy.
DefaultTrials == 60

trialsOf(v, cfg) ==
  IF v = "sync" THEN cfg.trials
  ELSE IF cfg.trialCount # 0 THEN cfg.trialCount
  ELSE IF cfg.trials # 0 THEN cfg.trials
  ELSE DefaultTrials

\* a share computed as if there were one condition more
trialsPerCondition_short(trials, conds) ==
  trials \div (Len(conds) + 1)

\* Math.floor(trials / conditions.length); with no condition the quotient is
\* Infinity or NaN and no loop reads it
trialsPerCondition(trials, conds) ==
  IF Len(conds) = 0 THEN 0 ELSE trials \div Len(conds)

\* One pass of the body of the inner for loop: the colour draw, then the
\* draw of the word.  Yields the stimulus and the number of draws made so far.
drawStimulus(condition, tp, n) ==
  LET colorName == COLOR_NAMES[randomIndex(tp, n, Len(COLOR_NAMES)) + 1]
      others    == differentColorNames(colorName)
  IN  IF condition = "congruent"
      THEN [stim |-> MakeStimulus(condition, colorName, colorName), n |-> n + 1]
      ELSE IF condition = "incongruent"
      THEN [stim |-> MakeStimulus(condition, colorName,
                                  others[randomIndex(tp, n + 1, Len(others)) + 1]),
            n |-> n + 2]
      ELSE [stim |-> MakeStimulus(condition, colorName,
                                  NEUTRAL_WORDS[randomIndex(tp, n + 1, Len(NEUTRAL_WORDS)) + 1]),
            n |-> n + 2]

\* the inner for loop of one condition with count passes still to make; the
\* passes are split in halves, and the first half is evaluated (its draw
\* count read) before the second starts, to keep the evaluation shallow
RECURSIVE conditionBlock(_, _, _, _)
conditionBlock(condition, count, tp, st) ==
  IF count <= 0 THEN st
  ELSE IF count = 1
  THEN [out |-> Append(st.out, drawStimulus(condition, tp, st.n).stim),
        n |-> drawStimulus(condition, tp, st.n).n]
  ELSE LET firstHalf == conditionBlock(condition, count \div 2, tp, st)
       IN  IF firstHalf.n >= 0
           THEN conditionBlock(condition, count - (count \div 2), tp, firstHalf)
           ELSE st

\* a base allocation that walks the conditions from the last to the first
RECURSIVE baseAllocation_backwards(_, _, _, _, _)
RECURSIVE baseAllocation(_, _, _, _, _)
baseAllocation_backwards(conds, per, tp, ci, st) ==
  IF ci > Len(conds) THEN st
  ELSE LET block == conditionBlock(conds[Len(conds) + 1 - ci], per, tp, st)
       IN  IF block.n >= 0 THEN baseAllocation_backwards(conds, per, tp, ci + 1, block)
           ELSE st

\* conditions.forEach(condition => { for (i < trialsPerCondition) push })
\* from condition number ci on
baseAllocation(conds, per, tp, ci, st) ==
  IF ci > Len(conds) THEN st
  ELSE LET block == conditionBlock(conds[ci], per, tp, st)
       IN  IF block.n >= 0 THEN baseAllocation(conds, per, tp, ci + 1, block) ELSE st

\* One pass of the while loop: a colour draw, a condition draw, and for every
\* condition but "congruent" an incongruent stimulus
fillOne(conds, tp, st) ==
  LET colorName == COLOR_NAMES[randomIndex(tp, st.n, Len(COLOR_NAMES)) + 1]
      condition == IF Len(conds) = 0 THEN "undefined"
                   ELSE conds[randomIndex(tp, st.n + 1, Len(conds)) + 1]
      others    == differentColorNames(colorName)
  IN  IF condition = "congruent"
      THEN [out |-> Append(st.out, MakeStimulus("congruent", colorName, colorName)),
            n |-> st.n + 2]
      ELSE [out |-> Append(st.out,
                      MakeStimulus("incongruent", colorName,
                                   others[randomIndex(tp, st.n + 2, Len(others)) + 1])),
            n |-> st.n + 3]

\* while (newStimuli.length < trials) { ... push }: every pass appends one
\* stimulus, so trials - length passes are left; split in halves as above
RECURSIVE fillRemaining(_, _, _, _)
fillRemaining(conds, trials, tp, st) ==
  IF trials - Len(st.out) <= 0 THEN st
  ELSE IF trials - Len(st.out) = 1 THEN fillOne(conds, tp, st)
  ELSE LET firstHalf ==
             fillRemaining(conds, Len(st.out) + ((trials - Len(st.out)) \div 2), tp, st)
       IN  IF firstHalf.n >= 0 THEN fillRemaining(conds, trials, tp, firstHalf) ELSE st

\* the stimuli before the shuffle: base allocation, then the fill loop
newStimuli(trials, conds, tp) ==
  LET base == baseAllocation(conds, trialsPerCondition(trials, conds), tp, 1,
                             [out |-> <<>>, n |-> 0])
  IN  IF base.n >= 0 THEN fillRemaining(conds, trials, tp, base) ELSE base

\* the sign of Math.random() - 0.5
compareRandom(tp, n) == 2 * rnd(tp, n) - RandomUnit

\* how many places element j moves down: the comparator calls from draw n on
\* that say "greater" before the first that does not, j - 1 at most
sinks(tp, n, j) ==
  IF \E d \in 0..(j - 2) : compareRandom(tp, n + d) <= 0
  THEN CHOOSE d \in 0..(j - 2) :
         /\ compareRandom(tp, n + d) <= 0
         /\ \A e \in 0..(d - 1) : compareRandom(tp, n + e) > 0
  ELSE j - 1

\* an insertion that overwrites the slot it lands on and leaves the rest
insertStep_overwrite(st, tp, j) ==
  [out |-> [st.out EXCEPT ![j - sinks(tp, st.n, j)] = st.out[j]],
   n   |-> st.n + (IF sinks(tp, st.n, j) < j - 1 THEN sinks(tp, st.n, j) + 1 ELSE j - 1)]

\* Array.prototype.sort with the random comparator, as an insertion sort:
\* element j moves down past every neighbour the comparator calls greater
insertStep(st, tp, j) ==
  [out |-> [p \in DOMAIN st.out |->
              IF p < j - sinks(tp, st.n, j) \/ p > j THEN st.out[p]
              ELSE IF p = j - sinks(tp, st.n, j) THEN st.out[j]
              ELSE st.out[p - 1]],
   n   |-> st.n + (IF sinks(tp, st.n, j) < j - 1 THEN sinks(tp, st.n, j) + 1 ELSE j - 1)]

\* the insertions of the elements lo..hi, in order, split in halves
RECURSIVE sortRandom(_, _, _, _)
sortRandom(st, tp, lo, hi) ==
  IF lo > hi THEN st
  ELSE IF lo = hi THEN insertStep(st, tp, lo)
  ELSE LET firstHalf == sortRandom(st, tp, lo, (lo + hi) \div 2)
       IN  IF firstHalf.n >= 0
           THEN sortRandom(firstHalf, tp, ((lo + hi) \div 2) + 1, hi)
           ELSE st

\* newStimuli.sort(() => Math.random() - 0.5)
shuffled(st, tp) == sortRandom(st, tp, 2, Len(st.out)).out

\* part_004 getColorKey: colour name, else exact hex value, else "r"
colorMap ==
  [h \in {"#dc2626", "#16a34a", "#2563eb", "#eab308"} |->
     CASE h = "#dc2626" -> "r" [] h = "#16a34a" -> "g"
       [] h = "#2563eb" -> "b" [] h = "#eab308" -> "y"]

\* a colour key lookup that knows the names only
getColorKey_namesOnly(colorValue) ==
  IF toLowerCase(colorValue) \in DOMAIN COLORS
  THEN COLORS[toLowerCase(colorValue)].key
  ELSE "r"

getColorKey(colorValue) ==
  IF toLowerCase(colorValue) \in DOMAIN COLORS
  THEN COLORS[toLowerCase(colorValue)].key
  ELSE IF colorValue \in DOMAIN colorMap THEN colorMap[colorValue]
  ELSE "r"

\* Array.prototype.slice(0, k)
slice0(seq, k) ==
  IF k >= 0
  THEN SubSeq(seq, 1, IF k < Len(seq) THEN k ELSE Len(seq))
  ELSE SubSeq(seq, 1, IF Len(seq) + k > 0 THEN Len(seq) + k ELSE 0)

\* part_004: one pre-supplied stimulus mapped to a StroopStimulus; a missing
\* field is the empty string
mapStimulus(a) ==
  LET shown == IF a.displayColor # "" THEN a.displayColor
               ELSE IF a.color # "" THEN a.color ELSE "#dc2626"
  IN  [word |-> IF a.word # "" THEN toUpperCase(a.word) ELSE "RED",
       color |-> shown,
       condition |-> IF a.congruence = "incongruent" THEN "incongruent" ELSE "congruent",
       correctResponse |-> getColorKey(shown)]

\* does the config bring its own stimuli (part_004 only)
preSupplied(v, cfg) == v = "fetch" /\ Len(cfg.stimuli) > 0

\* generateStimuli of either file
generateStimuli(v, cfg, tp) ==
  IF preSupplied(v, cfg)
  THEN LET kept == slice0(cfg.stimuli, trialsOf(v, cfg))
       IN  [k \in DOMAIN kept |-> mapStimulus(kept[k])]
  ELSE LET made == newStimuli(trialsOf(v, cfg), cfg.conditions, tp)
       IN  IF cfg.randomize THEN shuffled(made, tp) ELSE made.out

\* the inputs of the generator
ConditionLists ==
  { <<>>, <<"congruent">>, <<"neutral">>, <<"congruent", "incongruent">>,
    <<"incongruent", "congruent">>, <<"congruent", "neutral">>,
    <<"congruent", "incongruent", "neutral">> }

AiStimulusPool ==
  { [word |-> "red", displayColor |-> "Blue", color |-> "", congruence |-> "incongruent"],
    [word |-> "",    displayColor |-> "", color |-> "#16a34a", congruence |-> ""],
    [word |-> "Red", displayColor |-> "purple", color |-> "red", congruence |-> "incongruent"] }

Tapes == UNION {[1..m -> 0..(RandomUnit - 1)] : m \in 1..MaxTapeLen}

Configs(v) ==
  [trialCount : IF v = "sync" THEN {0} ELSE {0, 2},
   trials     : (-1)..MaxGenTrials,
   conditions : ConditionLists,
   randomize  : BOOLEAN,
   stimuli    : IF v = "sync" THEN {<<>>} ELSE SeqsUpTo(AiStimulusPool, 2)]

\* the condition tags of a stimulus sequence, in canonical order
TagsOf(s) ==
  SelectSeq(<<"congruent", "incongruent", "neutral">>,
            LAMBDA c : \E k \in DOMAIN s : s[k].condition = c)

\* A run starts after the generating effect has stored its result: stimuli is
\* a sequence generateStimuli can return for the config of the block.
Init ==
  /\ variant \in {"sync", "fetch"}
  /\ stimuli \in SeqsUpTo(StimulusPool, MaxTrials)
  /\ config = [trialCount |-> 0, trials |-> Len(stimuli), conditions |-> TagsOf(stimuli),
               randomize |-> TRUE, stimuli |-> <<>>]
  /\ tape = <<0>>
  /\ genDone = TRUE
  /\ phase = "mounted"
  /\ showInstructions = TRUE
  /\ currentTrial = 0
  /\ currentStimulus = NoStimulus
  /\ showStimulus = FALSE
  /\ trialStartTime = 0
  /\ responses = <<>>
  /\ aiWarnings = FALSE
  /\ timers = {}
  /\ delivery = <<>>
  /\ presented = <<>>
  /\ completeCalls = 0
  /\ failureSeen = FALSE
  /\ now = 0
  /\ stored = <<>>
  /\ analysis = NoAnalysis
  /\ siteIdle

\* participant.tsx handleTaskComplete: the page moves to the next block (or to
\* the completion screen), which takes the task component off the screen.
onComplete ==
  /\ completeCalls' = completeCalls + 1
  /\ phase' = IF phase = "mounted" THEN "closed" ELSE phase

\* startTrial as created by the render in which currentTrial was k
startTrial(k) ==
  IF k >= Len(stimuli)
  THEN /\ onComplete
       /\ UNCHANGED <<currentStimulus, showStimulus, trialStartTime, presented>>
  ELSE /\ IF phase = "mounted"
          THEN /\ currentStimulus' = stimuli[k + 1]
               /\ showStimulus' = TRUE
               /\ trialStartTime' = now
               /\ presented' = Append(presented, k)
          ELSE UNCHANGED <<currentStimulus, showStimulus, trialStartTime, presented>>
       /\ UNCHANGED <<phase, completeCalls>>

\* the Start Task button
startTask ==
  /\ phase = "mounted"
  /\ showInstructions
  /\ showInstructions' = FALSE
  /\ startTrial(currentTrial)
  /\ UNCHANGED <<genVars, analysisVars, siteVars, variant, stimuli, currentTrial, responses, aiWarnings, timers,
                 delivery, failureSeen, now>>

\* a key check that lets every key through
qualifies_anyKey(key) == TRUE

\* handleKeyPress: const validKeys = ...; validKeys.includes(key)
qualifies(key) == toLowerCase(key) \in validKeys

\* an updater that skips a trial
nextTrial_skip(prev) == prev + 2

\* setCurrentTrial(prev => prev + 1)
nextTrial(prev) == prev + 1

\* a scoring that compares the key as typed, not lower-cased
responseData_rawKey(key) ==
  [ keyPressed   |-> toLowerCase(key),
    correct      |-> (key = currentStimulus.correctResponse),
    responseTime |-> now - trialStartTime,
    trialNumber  |-> currentTrial + 1,
    stimulus     |-> currentStimulus ]

\* the responseData object built by handleKeyPress
responseData(key) ==
  [ keyPressed   |-> toLowerCase(key),
    correct      |-> (toLowerCase(key) = currentStimulus.correctResponse),
    responseTime |-> now - trialStartTime,
    trialNumber  |-> currentTrial + 1,
    stimulus     |-> currentStimulus ]

\* participant.tsx handleTaskResponse: one POST /api/responses per call
handleTaskResponse(d) == [d EXCEPT !.st = "posting", !.posts = @ + 1]

\* What handleKeyPress does with the outcome: stroop-task.tsx calls
\* onResponse at once; the other variant starts its own fetch POST and calls
\* onResponse when that fetch has settled.
notify ==
  IF variant = "sync"
  THEN handleTaskResponse([st |-> "scored", posts |-> 0])
  ELSE [st |-> "fetching", posts |-> 1]

\* the keydown listener, attached while the component is mounted
handleKeyPress(key) ==
  /\ phase = "mounted"
  /\ IF ~showStimulus \/ currentStimulus = NoStimulus
     THEN UNCHANGED vars
     ELSE IF ~qualifies(key)
     THEN UNCHANGED vars
     ELSE /\ responses' = Append(responses, responseData(key))
          /\ delivery' = Append(delivery, notify)
          /\ showStimulus' = FALSE
          /\ currentTrial' = nextTrial(currentTrial)
          /\ timers' = timers \cup {currentTrial}
          /\ UNCHANGED <<genVars, analysisVars, siteVars, variant, stimuli, phase, showInstructions, currentStimulus,
                         trialStartTime, aiWarnings, presented, completeCalls,
                         failureSeen, now>>

\* the 500 ms timer of handleKeyPress fires and runs the startTrial it closed over
timerFires(k) ==
  /\ k \in timers
  /\ timers' = timers \ {k}
  /\ startTrial(k)
  /\ UNCHANGED <<genVars, analysisVars, siteVars, variant, stimuli, showInstructions, currentTrial, responses,
                 aiWarnings, delivery, failureSeen, now>>

\* submitResponse, try block: the fetch and response.json() resolved;
\* warn says whether the server answered with warnings
fetchResolved(i, warn) ==
  /\ i \in DOMAIN delivery
  /\ delivery[i].st = "fetching"
  /\ aiWarnings' = IF warn /\ phase = "mounted" THEN TRUE ELSE aiWarnings
  /\ delivery' = [delivery EXCEPT ![i] = handleTaskResponse(@)]
  /\ UNCHANGED <<genVars, analysisVars, siteVars, variant, stimuli, phase, showInstructions, runState, timers,
                 presented, completeCalls, failureSeen, now>>

\* a catch block that gives the run up: the pending next trial is cancelled
catchBlock_stopsRun(i) ==
  /\ failureSeen' = TRUE
  /\ delivery' = [delivery EXCEPT ![i] = handleTaskResponse(@)]
  /\ timers' = {}
  /\ UNCHANGED <<runState, aiWarnings>>

\* submitResponse, catch block: console.error, then onResponse all the same
catchBlock(i) ==
  /\ failureSeen' = TRUE
  /\ delivery' = [delivery EXCEPT ![i] = handleTaskResponse(@)]
  /\ UNCHANGED <<runState, aiWarnings, timers>>

fetchRejected(i) ==
  /\ i \in DOMAIN delivery
  /\ delivery[i].st = "fetching"
  /\ catchBlock(i)
  /\ UNCHANGED <<genVars, analysisVars, siteVars, variant, stimuli, phase, showInstructions, presented, completeCalls,
                 now>>

\* setTimeout(() => setAiWarnings([]), 5000)
clearWarnings ==
  /\ phase = "mounted"
  /\ aiWarnings
  /\ aiWarnings' = FALSE
  /\ UNCHANGED <<genVars, analysisVars, siteVars, variant, stimuli, phase, showInstructions, runState, timers,
                 delivery, presented, completeCalls, failureSeen, now>>

\* the page's submitResponseMutation settles; nobody retries it
postSettled(i, ok) ==
  /\ i \in DOMAIN delivery
  /\ delivery[i].st = "posting"
  /\ delivery' = [delivery EXCEPT ![i].st = "done"]
  /\ failureSeen' = (failureSeen \/ ~ok)
  /\ UNCHANGED <<genVars, analysisVars, siteVars, variant, stimuli, phase, showInstructions, runState, aiWarnings,
                 timers, presented, completeCalls, now>>

\* the Continue button of the "Task Complete!" screen
continueClick ==
  /\ phase = "mounted"
  /\ ~showInstructions
  /\ currentTrial >= Len(stimuli)
  /\ onComplete
  /\ UNCHANGED <<genVars, analysisVars, siteVars, variant, stimuli, showInstructions, runState, aiWarnings, timers,
                 delivery, presented, failureSeen, now>>

\* The page takes the component off the screen: useEffect cleanup removes the
\* keydown listener.  Before the last trial was scored this aborts the run.
unmount ==
  /\ phase = "mounted"
  /\ phase' = IF currentTrial < Len(stimuli) THEN "aborted" ELSE "closed"
  /\ UNCHANGED <<genVars, analysisVars, siteVars, variant, stimuli, showInstructions, runState, aiWarnings, timers,
                 delivery, presented, completeCalls, failureSeen, now>>

\* time passes
tick ==
  /\ now < MaxTime
  /\ now' = now + 1
  /\ UNCHANGED <<genVars, analysisVars, siteVars, variant, stimuli, phase, showInstructions, runState, aiWarnings,
                 timers, delivery, presented, completeCalls, failureSeen>>

Next ==
  \/ startTask
  \/ \E key \in InputKeys : handleKeyPress(key)
  \/ \E k \in timers : timerFires(k)
  \/ \E i \in DOMAIN delivery : \E warn \in BOOLEAN : fetchResolved(i, warn)
  \/ \E i \in DOMAIN delivery : fetchRejected(i)
  \/ clearWarnings
  \/ \E i \in DOMAIN delivery : \E ok \in BOOLEAN : postSettled(i, ok)
  \/ continueClick
  \/ unmount
  \/ tick

Spec == Init /\ [][Next]_vars

\* The run without an abort, with the scheduling the browser gives it: a due
\* timer fires, the Start button is pressed, and the participant answers every
\* stimulus that is shown.
LiveNext ==
  \/ startTask
  \/ \E key \in InputKeys : handleKeyPress(key)
  \/ \E k \in timers : timerFires(k)
  \/ \E i \in DOMAIN delivery : \E warn \in BOOLEAN : fetchResolved(i, warn)
  \/ \E i \in DOMAIN delivery : fetchRejected(i)
  \/ clearWarnings
  \/ \E i \in DOMAIN delivery : \E ok \in BOOLEAN : postSettled(i, ok)
  \/ continueClick
  \/ tick

LiveSpec ==
  /\ Init
  /\ [][LiveNext]_vars
  /\ WF_vars(startTask)
  /\ WF_vars(\E key \in InputKeys : handleKeyPress(key))
  /\ WF_vars(\E k \in timers : timerFires(k))

\* ------------------------------------------- the run on a wall clock

\* Date.now() is the wall clock: the system may set it back between two reads
clockAdjust ==
  /\ now > 0
  /\ \E t \in 0..(now - 1) : now' = t
  /\ UNCHANGED <<genVars, analysisVars, siteVars, variant, stimuli, phase, showInstructions, runState, aiWarnings,
                 timers, delivery, presented, completeCalls, failureSeen>>

ClockNext ==
  \/ Next
  \/ clockAdjust

\* the run when the clock may also be set back
ClockSpec == Init /\ [][ClockNext]_vars

\* ------------------------------------------ the generating effect, alone

\* the component has just been rendered for the first time with some config
GenInit ==
  /\ variant \in {"sync", "fetch"}
  /\ config \in Configs(variant)
  /\ tape \in Tapes
  /\ genDone = FALSE
  /\ stimuli = <<>>
  /\ phase = "mounted"
  /\ showInstructions = TRUE
  /\ currentTrial = 0
  /\ currentStimulus = NoStimulus
  /\ showStimulus = FALSE
  /\ trialStartTime = 0
  /\ responses = <<>>
  /\ aiWarnings = FALSE
  /\ timers = {}
  /\ delivery = <<>>
  /\ presented = <<>>
  /\ completeCalls = 0
  /\ failureSeen = FALSE
  /\ now = 0
  /\ stored = <<>>
  /\ analysis = NoAnalysis
  /\ siteIdle

\* useEffect(() => { setStimuli(generateStimuli()) }, [config])
generateEffect ==
  /\ ~genDone
  /\ stimuli' = generateStimuli(variant, config, tape)
  /\ genDone' = TRUE
  /\ UNCHANGED <<variant, phase, showInstructions, runState, aiWarnings, timers,
                 delivery, presented, completeCalls, failureSeen, now, config, tape,
                 analysisVars, siteVars>>

GenNext ==
  \/ generateEffect

GenSpec == GenInit /\ [][GenNext]_vars

\* ------------------------------------------------------------ the analyzer

\* the fields of the responseData object the analyzer reads, as
\* handleKeyPress fills them and POST /api/responses stores them
storedResponse(r) ==
  [responseTime |-> r.responseTime, accuracy |-> r.correct, stimulus |-> r.stimulus]

storedResponses(rs) == [k \in DOMAIN rs |-> storedResponse(rs[k])]

\* data.responses.filter(r => r.responseTime && r.responseTime > 0)
validResponses(rs) == SelectSeq(rs, LAMBDA r : r.responseTime # 0 /\ r.responseTime > 0)

\* responses.filter(r => r.stimulus?.congruent === flag): a stimulus without
\* the field never passes
withCongruent(rs, flag) ==
  SelectSeq(rs, LAMBDA r : "congruent" \in DOMAIN r.stimulus /\ r.stimulus.congruent = flag)

\* rts.reduce((a, b) => a + b, 0) over the response times of rs
RECURSIVE sumResponseTime(_)
sumResponseTime(rs) ==
  IF rs = <<>> THEN 0 ELSE Head(rs).responseTime + sumResponseTime(Tail(rs))

\* the local stroopEffect: undefined, or meanIncongruent - meanCongruent as
\* the fraction num / den
stroopEffect(rs) ==
  LET congruentRTs   == withCongruent(validResponses(rs), TRUE)
      incongruentRTs == withCongruent(validResponses(rs), FALSE)
  IN  IF Len(congruentRTs) > 0 /\ Len(incongruentRTs) > 0
      THEN [defined |-> TRUE,
            num |-> sumResponseTime(incongruentRTs) * Len(congruentRTs)
                      - sumResponseTime(congruentRTs) * Len(incongruentRTs),
            den |-> Len(incongruentRTs) * Len(congruentRTs)]
      ELSE [defined |-> FALSE, num |-> 0, den |-> 1]

\* Math.round of the fraction num / den, den > 0
round(num, den) == (2 * num + den) \div (2 * den)

\* the stroopEffect field of the result:
\* stroopEffect ? Math.round(stroopEffect) : undefined
reportedStroopEffect(rs) ==
  IF stroopEffect(rs).defined /\ stroopEffect(rs).num # 0
  THEN [present |-> TRUE, value |-> round(stroopEffect(rs).num, stroopEffect(rs).den)]
  ELSE [present |-> FALSE, value |-> 0]

\* responseTimes.reduce over the squares of the response times of rs
RECURSIVE sumSquares(_)
sumSquares(rs) ==
  IF rs = <<>> THEN 0
  ELSE Head(rs).responseTime * Head(rs).responseTime + sumSquares(Tail(rs))

\* responses.filter(r => r.accuracy === true).length
accurateCount(rs) == Len(SelectSeq(rs, LAMBDA r : r.accuracy = TRUE))

\* (rt - rtMean)^2 and rtStd^2 for the responses rs, both multiplied by the
\* square of their number so that they stay whole numbers
deviationSq(rt, rs) == (Len(rs) * rt - sumResponseTime(rs)) * (Len(rs) * rt - sumResponseTime(rs))

spreadSq(rs) == Len(rs) * sumSquares(rs) - sumResponseTime(rs) * sumResponseTime(rs)

\* a test against one standard deviation instead of three
isOutlier_oneSigma(rt, rs, roundedUp) ==
  deviationSq(rt, rs) > spreadSq(rs)

\* Math.abs(rt - rtMean) > 3 * rtStd.  The code computes both sides in
\* IEEE doubles: where they are equal as real numbers and not zero, the
\* rounding of the mean, the square root and the product decides, and
\* roundedUp says which way it went.  When all response times are equal the
\* mean is exact and both sides are exactly 0.
isOutlier(rt, rs, roundedUp) ==
  \/ (deviationSq(rt, rs) - 1) \div 9 >= spreadSq(rs)
  \/ /\ roundedUp
     /\ spreadSq(rs) > 0
     /\ deviationSq(rt, rs) % 9 = 0
     /\ deviationSq(rt, rs) \div 9 = spreadSq(rs)

\* responseTimes.filter(rt => Math.abs(rt - rtMean) > outlierThreshold).length
outlierCount(rs, roundedUp) ==
  Cardinality({k \in DOMAIN rs : isOutlier(rs[k].responseTime, rs, roundedUp)})

\* a score without the penalty for a small sample
qualityScore_noSamplePenalty(rs, outliers) ==
  100 - (IF 10 * accurateCount(rs) < 7 * Len(rs) THEN 30 ELSE 0)
      - (IF sumResponseTime(rs) < 300 * Len(rs) \/ sumResponseTime(rs) > 2000 * Len(rs)
         THEN 20 ELSE 0)
      - (IF 10 * outliers > Len(rs) THEN 20 ELSE 0)

\* let qualityScore = 100 and the four penalties, on the unrounded
\* accuracy, mean and outlier fraction of the responses rs
qualityScore(rs, outliers) ==
  100 - (IF 10 * accurateCount(rs) < 7 * Len(rs) THEN 30 ELSE 0)
      - (IF sumResponseTime(rs) < 300 * Len(rs) \/ sumResponseTime(rs) > 2000 * Len(rs)
         THEN 20 ELSE 0)
      - (IF 10 * outliers > Len(rs) THEN 20 ELSE 0)
      - (IF Len(rs) < 20 THEN 30 ELSE 0)

\* Math.max(0, x)
max0(x) == IF x > 0 THEN x ELSE 0

\* an early return that scores the empty list like any other
emptyResult_scored ==
  [done |-> TRUE, meanResponseTime |-> 0, accuracy |-> 0, outlierCount |-> 0,
   qualityScore |-> 20, stroopEffect |-> [present |-> FALSE, value |-> 0]]

\* the early return for no valid response
emptyResult ==
  [done |-> TRUE, meanResponseTime |-> 0, accuracy |-> 0, outlierCount |-> 0,
   qualityScore |-> 0, stroopEffect |-> [present |-> FALSE, value |-> 0]]

\* The AnalysisResult for the responses all: the mean rounded to whole
\* milliseconds, the accuracy rounded to hundredths (and held in
\* hundredths), the count of outliers, the clamped score and the effect.
analysisResult(all, roundedUp) ==
  LET rs == validResponses(all)
  IN  IF Len(rs) = 0 THEN emptyResult
      ELSE [done |-> TRUE,
            meanResponseTime |-> round(sumResponseTime(rs), Len(rs)),
            accuracy |-> round(100 * accurateCount(rs), Len(rs)),
            outlierCount |-> outlierCount(rs, roundedUp),
            qualityScore |-> max0(qualityScore(rs, outlierCount(rs, roundedUp))),
            stroopEffect |-> reportedStroopEffect(all)]

\* the outcomes of the runner the analyzer is handed
MaxStored == 3          \* most stored responses of one analysis
MaxLatency == 2         \* largest response time of a stored response

StoredPool ==
  { storedResponse([keyPressed |-> key, correct |-> (key = st.correctResponse),
                    responseTime |-> t, trialNumber |-> 1, stimulus |-> st]) :
      key \in {"r", "g"}, st \in StimulusPool, t \in 0..MaxLatency }

MaxRun == 20            \* longest run of one repeated response

\* the response times of the longer lists
RunLatencies == {0, 200, 201, 400, 600, 2001}

\* a stored outcome of a red congruent trial, answered right or wrong
runResponse(t, right) ==
  storedResponse([keyPressed |-> IF right THEN "r" ELSE "g", correct |-> right,
                  responseTime |-> t, trialNumber |-> 1,
                  stimulus |-> MakeStimulus("congruent", "red", "red")])

RunPool == {runResponse(t, right) : t \in RunLatencies, right \in BOOLEAN}

\* n times the response a, then the responses of tl
Run(a, n, tl) == [k \in 1..(n + Len(tl)) |-> IF k <= n THEN a ELSE tl[k - n]]

\* lists of one repeated response followed by up to two others
Runs ==
  { Run(a, n, tl) : a \in RunPool, n \in 0..MaxRun,
                    tl \in SeqsUpTo(RunPool, 1)
                             \cup {<<b, runResponse(t, TRUE)>> : b \in RunPool, t \in RunLatencies} }

\* two quick right answers and one very slow wrong one
SlowThird ==
  <<runResponse(250, TRUE), runResponse(260, TRUE), runResponse(5000, FALSE)>>

StoredInputs == SeqsUpTo(StoredPool, MaxStored) \cup Runs \cup {SlowThird}

\* GET /api/studies/:id/analysis is about to call the analyzer on the stroop
\* responses of a study
AnalysisInit ==
  /\ variant = "sync"
  /\ stimuli = <<>>
  /\ config = [trialCount |-> 0, trials |-> 0, conditions |-> <<>>,
               randomize |-> TRUE, stimuli |-> <<>>]
  /\ tape = <<0>>
  /\ genDone = TRUE
  /\ phase = "closed"
  /\ showInstructions = TRUE
  /\ currentTrial = 0
  /\ currentStimulus = NoStimulus
  /\ showStimulus = FALSE
  /\ trialStartTime = 0
  /\ responses = <<>>
  /\ aiWarnings = FALSE
  /\ timers = {}
  /\ delivery = <<>>
  /\ presented = <<>>
  /\ completeCalls = 0
  /\ failureSeen = FALSE
  /\ now = 0
  /\ stored \in StoredInputs
  /\ analysis = NoAnalysis
  /\ siteIdle

\* AnalystAgent.analyzeExperimentData
analyzeExperimentData ==
  /\ ~analysis.done
  /\ \E roundedUp \in BOOLEAN : analysis' = analysisResult(stored, roundedUp)
  /\ UNCHANGED <<genVars, variant, stimuli, phase, showInstructions, runState, aiWarnings,
                 timers, delivery, presented, completeCalls, failureSeen, now, stored,
                 siteVars>>

AnalysisNext ==
  \/ analyzeExperimentData

AnalysisSpec == AnalysisInit /\ [][AnalysisNext]_vars

\* ------------------------------------------------------ the response endpoint

\* the Stroop task, its generator and the analyzer are not in use
stroopVars ==
  <<genVars, analysisVars, variant, stimuli, phase, showInstructions, runState, aiWarnings,
    timers, delivery, presented, completeCalls, failureSeen, now>>

stroopIdle ==
  /\ variant = "sync"
  /\ stimuli = <<>>
  /\ config = [trialCount |-> 0, trials |-> 0, conditions |-> <<>>,
               randomize |-> TRUE, stimuli |-> <<>>]
  /\ tape = <<0>>
  /\ genDone = TRUE
  /\ phase = "closed"
  /\ showInstructions = TRUE
  /\ currentTrial = 0
  /\ currentStimulus = NoStimulus
  /\ showStimulus = FALSE
  /\ trialStartTime = 0
  /\ responses = <<>>
  /\ aiWarnings = FALSE
  /\ timers = {}
  /\ delivery = <<>>
  /\ presented = <<>>
  /\ completeCalls = 0
  /\ failureSeen = FALSE
  /\ now = 0
  /\ stored = <<>>
  /\ analysis = NoAnalysis

MaxRequests == 3        \* most requests of one run of the server

\* the methods of the storage object: those of MemStorage
storageMethods ==
  { "getUser", "getUserByUsername", "createUser",
    "getStudy", "getStudiesByUser", "createStudy", "updateStudy", "deleteStudy",
    "getParticipant", "getParticipantsByStudy", "createParticipant", "updateParticipant",
    "getResponsesByParticipant", "getResponsesByStudy", "createResponse", "getStudyStats" }

\* request bodies; "undefined" is a field the body does not have
Bodies ==
  [participantId : {"p1", "p2", "undefined"}, studyId : {"s1"}, blockId : {"b1"},
   blockType : {"stroop", "demographics"}, response : {"answer", "undefined"},
   responseTime : {100, 5000}]

\* insertResponseSchema.parse: the columns declared notNull must be there
parses(body) ==
  /\ body.participantId # "undefined" /\ body.studyId # "undefined"
  /\ body.blockId # "undefined" /\ body.blockType # "undefined"
  /\ body.response # "undefined"

\* What the handler answers once createResponse has stored the record: the
\* next statement calls storage.getRecentResponses, which no storage class
\* defines, so the call throws a TypeError and the catch block answers 500;
\* past it both branches answer 201.
statusAfterStore(body) ==
  IF "getRecentResponses" \in storageMethods THEN 201 ELSE 500

\* MemStorage.createResponse: responses.set(id, {...insertResponse, id, timestamp})
createResponse(tbl, body) == Append(tbl, body)

\* app.post("/api/responses", ...), one request from parse to answer
postResponse(body) ==
  /\ Len(replies) < MaxRequests
  /\ IF ~parses(body)
     THEN /\ rows' = rows
          /\ replies' = Append(replies, [valid |-> FALSE, status |-> 400, added |-> 0])
     ELSE /\ rows' = createResponse(rows, body)
          /\ replies' = Append(replies, [valid |-> TRUE, status |-> statusAfterStore(body),
                                         added |-> Len(createResponse(rows, body)) - Len(rows)])
  /\ UNCHANGED <<stroopVars, viewVars, recallVars>>

ServerInit == stroopIdle /\ siteIdle

ServerNext ==
  \/ \E body \in Bodies : postResponse(body)

ServerSpec == ServerInit /\ [][ServerNext]_vars

\* ------------------------------------------------------ the participant page

MaxBlocks == 3          \* most blocks of a study

\* the block types renderCurrentBlock knows
BlockTypes == {"consent", "demographics", "stroop", "image_recall", "instructions", "debrief"}

\* the studies a participant may be sent to: at least one block, in any order
Studies == UNION {[1..n -> BlockTypes] : n \in 1..MaxBlocks}

\* session.study.experimentBlocks[currentBlockIndex] is a block
hasCurrentBlock == currentBlockIndex + 1 \in DOMAIN experimentBlocks

\* the page renders the block of the given type: the session is there, the
\* study is not completed and the current block exists
renders(type) ==
  /\ participant
  /\ ~isCompleted
  /\ hasCurrentBlock
  /\ experimentBlocks[currentBlockIndex + 1] = type

\* startParticipationMutation.onSuccess: setParticipant(participantData),
\* setCurrentBlockIndex(participantData.currentBlock || 0) of a new participant
startParticipation ==
  /\ ~participant
  /\ participant' = TRUE
  /\ currentBlockIndex' = 0
  /\ UNCHANGED <<stroopVars, serverVars, recallVars, experimentBlocks, isCompleted>>

\* the consent form calls onSubmit
handleConsentSubmit ==
  /\ renders("consent")
  /\ currentBlockIndex' = currentBlockIndex + 1
  /\ UNCHANGED <<stroopVars, serverVars, recallVars, experimentBlocks, participant, isCompleted>>

\* the demographics form calls onSubmit (its Continue button)
handleDemographicsSubmit ==
  /\ renders("demographics")
  /\ currentBlockIndex' = currentBlockIndex + 1
  /\ UNCHANGED <<stroopVars, serverVars, recallVars, experimentBlocks, participant, isCompleted>>

\* onComplete of a task, Continue of an instructions block (handleBlockNext),
\* Finish of a debrief block
handleTaskComplete ==
  /\ \E type \in {"stroop", "image_recall", "instructions", "debrief"} : renders(type)
  /\ LET nextBlock == currentBlockIndex + 1 IN
       IF nextBlock >= Len(experimentBlocks)
       THEN /\ isCompleted' = TRUE
            /\ UNCHANGED currentBlockIndex
       ELSE /\ currentBlockIndex' = nextBlock
            /\ UNCHANGED isCompleted
  /\ UNCHANGED <<stroopVars, serverVars, recallVars, experimentBlocks, participant>>

\* Previous of a demographics or an instructions block
handleBlockPrevious ==
  /\ \E type \in {"demographics", "instructions"} : renders(type)
  /\ currentBlockIndex' = IF currentBlockIndex > 0 THEN currentBlockIndex - 1
                                                   ELSE currentBlockIndex
  /\ UNCHANGED <<stroopVars, serverVars, recallVars, experimentBlocks, participant, isCompleted>>

ViewInit ==
  /\ stroopIdle
  /\ serverIdle
  /\ recallIdle
  /\ experimentBlocks \in Studies
  /\ participant = FALSE
  /\ currentBlockIndex = 0
  /\ isCompleted = FALSE

ViewNext ==
  \/ startParticipation
  \/ handleConsentSubmit
  \/ handleDemographicsSubmit
  \/ handleTaskComplete
  \/ handleBlockPrevious

ViewSpec == ViewInit /\ [][ViewNext]_vars

\* ----------------------------------------------------- the image recall task

MaxRecalls == 3         \* most entries a participant submits in the recall phase

\* the names of SAMPLE_IMAGES, the first three of the twenty
SAMPLE_IMAGES == <<"Apple", "Car", "Book">>

\* config.aiImages when the block has images of its own
AiImages == <<"Lion", "Bear">>

\* a field that is 0 is a field the config does not have (or has as 0)
RecallConfigs ==
  [images : {0, 1, 2}, trialCount : {0, 1}, aiImages : {<<>>, AiImages},
   recallTime : {0, 500}, responseWindow : {0, 3000}]

\* a || b
orElse(a, b) == IF a # 0 THEN a ELSE b

\* the sequences Array.sort may leave with a comparator that answers at
\* random: the elements of s in any order
Orders(s) ==
  {t \in [1..Len(s) -> {s[i] : i \in 1..Len(s)}] :
     \A i, j \in 1..Len(s) : i # j => t[i] # t[j]}

\* the effect that initializes the study images: every value setStudyImages
\* may be given
initialStudyImages(cfg) ==
  IF Len(cfg.aiImages) > 0
  THEN {slice0(shuffled_, orElse(cfg.trialCount, orElse(cfg.images, 5))) :
          shuffled_ \in Orders(cfg.aiImages)}
  ELSE {slice0(shuffled_, orElse(cfg.images, 5)) : shuffled_ \in Orders(SAMPLE_IMAGES)}

\* config.recallTime || config.timings?.responseWindow || 10000
recallTimeOf(cfg) == orElse(cfg.recallTime, orElse(cfg.responseWindow, 10000))

\* String.trim on what a participant types
trim(str) ==
  CASE str = " " -> ""
    [] str = " car " -> "car"
    [] OTHER -> str

\* what a participant may have typed when they press Add or Enter
RecallInputs == {" ", "Apple", "apple", " car ", "zebra"}

\* calculateAccuracy: correctRecalls.length, the entries whose lower-cased
\* text is the lower-cased name of a studied image
RECURSIVE correctRecalls(_, _)
correctRecalls(entries, images) ==
  IF entries = <<>> THEN 0
  ELSE (IF \E i \in 1..Len(images) : toLowerCase(images[i]) = toLowerCase(Head(entries))
        THEN 1 ELSE 0) + correctRecalls(Tail(entries), images)

\* the state the study timer leaves when it fires at the given image
afterStudyTimer_skip(index, count) == [phase |-> "distractor", index |-> index]
afterStudyTimer(index, count) ==
  IF index + 1 < count THEN [phase |-> "study", index |-> index + 1]
                       ELSE [phase |-> "distractor", index |-> index]

\* Start Study Phase
startStudyPhase ==
  /\ taskPhase = "instructions"
  /\ taskPhase' = "study"
  /\ currentImageIndex' = 0
  /\ UNCHANGED <<stroopVars, serverVars, viewVars, recallConfig, studyImages, recallResponses,
                 timeRemaining, summary>>

\* the timeout of the study phase fires; it is set anew whenever the phase
\* or the image changes, while phase === "study" and an image is left
studyTimer ==
  /\ taskPhase = "study"
  /\ currentImageIndex < Len(studyImages)
  /\ taskPhase' = afterStudyTimer(currentImageIndex, Len(studyImages)).phase
  /\ currentImageIndex' = afterStudyTimer(currentImageIndex, Len(studyImages)).index
  /\ UNCHANGED <<stroopVars, serverVars, viewVars, recallConfig, studyImages, recallResponses,
                 timeRemaining, summary>>

\* Start Recall Phase, and the effect that sets the countdown
startRecallPhase ==
  /\ taskPhase = "distractor"
  /\ taskPhase' = "recall"
  /\ timeRemaining' = recallTimeOf(recallConfig)
  /\ UNCHANGED <<stroopVars, serverVars, viewVars, recallConfig, studyImages, currentImageIndex,
                 recallResponses, summary>>

\* the one-second interval of the recall phase fires
recallTick ==
  /\ taskPhase = "recall"
  /\ IF timeRemaining <= 1000
     THEN taskPhase' = "complete" /\ timeRemaining' = 0
     ELSE taskPhase' = taskPhase /\ timeRemaining' = timeRemaining - 1000
  /\ UNCHANGED <<stroopVars, serverVars, viewVars, recallConfig, studyImages, currentImageIndex,
                 recallResponses, summary>>

\* Add, or Enter in the input
handleRecallSubmit(input) ==
  /\ taskPhase = "recall"
  /\ Len(recallResponses) < MaxRecalls
  /\ recallResponses' = IF trim(input) # "" THEN Append(recallResponses, trim(input))
                                            ELSE recallResponses
  /\ UNCHANGED <<stroopVars, serverVars, viewVars, recallConfig, taskPhase, studyImages,
                 currentImageIndex, timeRemaining, summary>>

\* Finish Recall
finishRecall ==
  /\ taskPhase = "recall"
  /\ summary' = [sent |-> TRUE, correct |-> correctRecalls(recallResponses, studyImages),
                 total |-> Len(studyImages)]
  /\ taskPhase' = "complete"
  /\ UNCHANGED <<stroopVars, serverVars, viewVars, recallConfig, studyImages, currentImageIndex,
                 recallResponses, timeRemaining>>

\* the task as mounted, once the effect that initializes the images has run
RecallInit ==
  /\ stroopIdle
  /\ serverIdle
  /\ viewIdle
  /\ recallConfig \in RecallConfigs
  /\ taskPhase = "instructions"
  /\ studyImages \in initialStudyImages(recallConfig)
  /\ currentImageIndex = 0
  /\ recallResponses = <<>>
  /\ timeRemaining = 0
  /\ summary = NoSummary

RecallNext ==
  \/ startStudyPhase
  \/ studyTimer
  \/ startRecallPhase
  \/ recallTick
  \/ \E input \in RecallInputs : handleRecallSubmit(input)
  \/ finishRecall

\* a pending timeout and a running interval fire as long as the task is mounted
RecallSpec ==
  RecallInit /\ [][RecallNext]_vars /\ WF_vars(studyTimer) /\ WF_vars(recallTick)

\* ------------------------------------------------------------------ claims

\* the "Task Complete!" screen: currentTrial >= stimuli.length
Complete == currentTrial >= Len(stimuli)

\* C1: every presentation yields exactly one outcome.  Outcomes, the trial
\* index and the notifications change only in a step taken while a stimulus
\* is shown, which hides the stimulus, appends exactly one outcome whose key
\* is one of r, g, b, y, starts one notification and adds one to the index;
\* a stimulus is shown exactly when one presentation is still unanswered.
C1_OneOutcomePerTrial ==
  /\ [](showStimulus <=> Len(presented) = Len(responses) + 1)
  /\ [](~showStimulus <=> Len(presented) = Len(responses))
  /\ [][ (responses' # responses \/ currentTrial' # currentTrial
            \/ Len(delivery') # Len(delivery))
         => /\ showStimulus /\ ~showStimulus'
            /\ Len(responses') = Len(responses) + 1
            /\ SubSeq(responses', 1, Len(responses)) = responses
            /\ responses'[Len(responses')].keyPressed \in {"r", "g", "b", "y"}
            /\ Len(delivery') = Len(delivery) + 1
            /\ currentTrial' = currentTrial + 1 ]_vars

\* C1 witness: a trial has been scored and the runner sits in the inter-trial
\* delay, where every key is ignored.
C1_Witness ==
  /\ phase = "mounted" /\ Len(responses) >= 1
  /\ ~showStimulus /\ timers # {}

\* C2 (as claimed): the k-th presentation shows stimuli[k-1], and the k-th
\* outcome records that stimulus, for every k up to the sequence length.
C2_Claim ==
  /\ \A k \in DOMAIN presented : k <= Len(stimuli) => presented[k] = k - 1
  /\ \A k \in DOMAIN responses : k <= Len(stimuli) => responses[k].stimulus = stimuli[k]

\* C3 (as claimed): once the trial index has reached the sequence length no
\* stimulus is active, and never more outcomes or notifications exist than
\* the sequence has trials.
C3_Claim ==
  /\ Len(responses) <= Len(stimuli)
  /\ Len(delivery) <= Len(stimuli)
  /\ Complete => ~showStimulus

\* C4 (as claimed): a trial is resolved when its response window has passed,
\* so no stimulus of a mounted task is active for longer than the window.
C4_Claim ==
  (phase = "mounted" /\ showStimulus) => now - trialStartTime <= ResponseWindow

\* C5 (as claimed): the trial index equals the number of outcomes while no
\* stimulus is active and is one ahead of it while a trial is active; it
\* never decreases.
C5_Claim ==
  /\ [](~showStimulus => currentTrial = Len(responses))
  /\ [](showStimulus => currentTrial = Len(responses) + 1)
  /\ [][currentTrial' >= currentTrial]_vars

\* C5 (amended): the trial index equals the number of outcomes in every
\* reachable state, while a trial is active as well as between trials; it
\* never decreases.
C5_RunStateInvariant ==
  /\ [](currentTrial = Len(responses))
  /\ [][currentTrial' >= currentTrial]_vars

\* C5 witness: a trial other than the first is active, its index equal to the
\* number of outcomes recorded so far.
C5_Witness ==
  /\ phase = "mounted" /\ showStimulus
  /\ currentTrial >= 1 /\ currentTrial = Len(responses)

C7_Claim ==
  \A i \in DOMAIN delivery : delivery[i].posts <= 1

\* C8: the step that scores a key press increments the index, schedules the
\* next trial and leaves the notification unresolved; a step in which a
\* notification settles or fails changes nothing of the run: not the index,
\* the outcomes, the active stimulus, the pending timer or the mounting.
C8_FireAndForget ==
  /\ [][ Len(responses') > Len(responses)
         => /\ currentTrial' = currentTrial + 1
            /\ currentTrial \in timers'
            /\ delivery'[Len(delivery')].st \in {"fetching", "posting"} ]_vars
  /\ [][ ((\E i \in DOMAIN delivery : delivery'[i] # delivery[i])
            \/ failureSeen' # failureSeen)
         => UNCHANGED <<runState, timers, phase, presented>> ]_vars

\* C8 witness: a notification has failed, another is still unresolved, and
\* the run has gone on to a later trial.
C8_Witness ==
  /\ failureSeen /\ phase = "mounted" /\ showStimulus
  /\ Len(responses) >= 2
  /\ \E i \in DOMAIN delivery : delivery[i].st # "done"

\* C9 (as claimed): an abort cancels the inter-trial timer, and after it there
\* is no presentation, no outcome, no POST and no completion callback.
C9_Claim ==
  /\ [](phase = "aborted" => timers = {})
  /\ [][ (phase = "aborted" \/ phase' = "aborted")
         => /\ UNCHANGED <<presented, responses, completeCalls>>
            /\ Len(delivery') = Len(delivery)
            /\ \A i \in DOMAIN delivery : delivery'[i].posts = delivery[i].posts ]_vars

\* C10 (as claimed): with an empty sequence the run is not started: the task
\* stays on its instructions, shows no stimulus and calls onComplete never.
C10_Claim ==
  Len(stimuli) = 0 => (showInstructions /\ ~showStimulus /\ completeCalls = 0)

\* ----------------------------------------------------- generator claims

\* the trial count the config asks for, before any default is applied
askedTrials(v, cfg) ==
  IF v = "sync" THEN cfg.trials
  ELSE IF cfg.trialCount # 0 THEN cfg.trialCount ELSE cfg.trials

\* a valid configuration: trial count >= 1 and a non-empty condition list
validConfig(v, cfg) == askedTrials(v, cfg) >= 1 /\ Len(cfg.conditions) > 0

\* the number of stimuli of s tagged c
countTagged(s, c) == Cardinality({k \in DOMAIN s : s[k].condition = c})

\* the generator has returned for a valid config without stimuli of its own
Generated == genDone /\ validConfig(variant, config) /\ ~preSupplied(variant, config)

\* C11: for every valid configuration the generator returns exactly
\* trialCount trial specifications.
C11_Claim ==
  (genDone /\ validConfig(variant, config))
    => Len(stimuli) = trialsOf(variant, config)

\* C12: every trial specification the generator produced carries a condition
\* tag that is one of config.conditions.
C12_Claim ==
  Generated
    => \A k \in DOMAIN stimuli :
         \E c \in DOMAIN config.conditions : stimuli[k].condition = config.conditions[c]

\* C13: for every valid configuration and every condition c of it, the number
\* of generated trials tagged c is at least floor(trialCount / |conditions|)
\* and exceeds it by at most trialCount mod |conditions|.
C13_Claim ==
  Generated =>
    \A c \in DOMAIN config.conditions :
      LET count == countTagged(stimuli, config.conditions[c])
          share == trialsOf(variant, config) \div Len(config.conditions)
          rest  == trialsOf(variant, config) % Len(config.conditions)
      IN  count >= share /\ count <= share + rest

C13_Witness ==
  /\ Generated
  /\ trialsOf(variant, config) % Len(config.conditions) # 0
  /\ trialsOf(variant, config) \div Len(config.conditions) >= 1
  /\ \E c \in DOMAIN config.conditions :
       countTagged(stimuli, config.conditions[c])
         > trialsOf(variant, config) \div Len(config.conditions)

\* C14: with randomize = false the generated sequence is grouped by
\* condition in generation order: the base trials of conditions[1], then
\* those of conditions[2], and so on, then the remainder trials; trialCount =
\* 10 with [congruent, incongruent] gives 5 congruent, then 5 incongruent,
\* and no remainder trial.
C14_Claim ==
  (Generated /\ ~config.randomize) =>
    LET conds == config.conditions
        per   == trialsOf(variant, config) \div Len(conds)
    IN  /\ Len(stimuli) >= per * Len(conds)
        /\ \A c \in DOMAIN conds : \A i \in 1..per :
             stimuli[(c - 1) * per + i].condition = conds[c]
        /\ (trialsOf(variant, config) = 10 /\ conds = <<"congruent", "incongruent">>)
             => /\ Len(stimuli) = 10
                /\ \A k \in 1..5 : stimuli[k].condition = "congruent"
                /\ \A k \in 6..10 : stimuli[k].condition = "incongruent"

C14_Witness ==
  /\ Generated /\ ~config.randomize
  /\ trialsOf(variant, config) = 10
  /\ config.conditions = <<"congruent", "incongruent">>
  /\ stimuli[5].condition = "congruent" /\ stimuli[6].condition = "incongruent"

\* how often x occurs in s
occurrences(s, x) == Cardinality({k \in DOMAIN s : s[k] = x})

\* C15: with randomize = true the returned sequence is a permutation of the
\* trials generated before the shuffle: same length, and every trial
\* specification occurs as often after the shuffle as before it.
C15_Claim ==
  (genDone /\ config.randomize /\ ~preSupplied(variant, config)) =>
    LET before == newStimuli(trialsOf(variant, config), config.conditions, tape).out
    IN  /\ Len(stimuli) = Len(before)
        /\ \A k \in DOMAIN before :
             occurrences(stimuli, before[k]) = occurrences(before, before[k])

C15_Witness ==
  /\ genDone /\ config.randomize /\ ~preSupplied(variant, config)
  /\ Len(stimuli) >= 3
  /\ stimuli # newStimuli(trialsOf(variant, config), config.conditions, tape).out
  /\ \E j, k \in DOMAIN stimuli : stimuli[j] # stimuli[k]

\* C16: the generator fails with InvalidConfig, and produces no sequence,
\* when the trial count is below 1 or the condition list is empty.
C16_Claim ==
  ~validConfig(variant, config) => ~genDone

\* the key of the colour a display colour value shows, "none" when the value
\* is none of the four colours
displayKey(colorValue) ==
  IF \E c \in DOMAIN COLORS : COLORS[c].hex = toLowerCase(colorValue) \/ c = toLowerCase(colorValue)
  THEN COLORS[CHOOSE c \in DOMAIN COLORS :
                COLORS[c].hex = toLowerCase(colorValue) \/ c = toLowerCase(colorValue)].key
  ELSE "none"

\* C17: for every trial specification the runner receives, generated or
\* mapped from pre-supplied stimuli, the correct response is the key mapped
\* to the display colour, whatever the word.
C17_Claim ==
  genDone => \A k \in DOMAIN stimuli :
               stimuli[k].correctResponse = displayKey(stimuli[k].color)

\* ---------------------------------------------------------- scoring claims

\* C18: the correctness flag of every outcome equals (response token given =
\* correct response of the trial specification presented for that trial).
C18_Claim ==
  \A k \in DOMAIN responses :
    /\ k <= Len(presented)
    /\ responses[k].stimulus = stimuli[presented[k] + 1]
    /\ responses[k].correct
         = (responses[k].keyPressed = stimuli[presented[k] + 1].correctResponse)

C18_Witness ==
  /\ \E k \in DOMAIN responses : responses[k].correct
  /\ \E k \in DOMAIN responses : ~responses[k].correct

\* C19: the latency of every outcome is never negative, whatever the clock
\* the runner reads does.
C19_Claim ==
  \A k \in DOMAIN responses : responses[k].responseTime >= 0

\* ---------------------------------------------------------- analyzer claims

\* C20: for the outcomes the runner emitted, the analyzer reports a Stroop
\* effect if and only if at least one congruent and at least one incongruent
\* outcome are present; its value is then the mean latency of the incongruent
\* outcomes minus that of the congruent ones, a difference of 0 included.
C20_Claim ==
  analysis.done =>
    LET congruent   == SelectSeq(stored, LAMBDA r : r.stimulus.condition = "congruent")
        incongruent == SelectSeq(stored, LAMBDA r : r.stimulus.condition = "incongruent")
    IN  /\ analysis.stroopEffect.present <=> (Len(congruent) > 0 /\ Len(incongruent) > 0)
        /\ analysis.stroopEffect.present =>
             analysis.stroopEffect.value * Len(incongruent) * Len(congruent)
               = sumResponseTime(incongruent) * Len(congruent)
                   - sumResponseTime(congruent) * Len(incongruent)

\* the responses the analyzer keeps
analysed == validResponses(stored)

\* the number of the responses rs whose response time differs from their
\* mean by more than three population standard deviations, as real numbers
farOutCount(rs) ==
  Cardinality({k \in DOMAIN rs :
                 (deviationSq(rs[k].responseTime, rs) - 1) \div 9 >= spreadSq(rs)})

\* C21: for the latencies 250, 260 and 5000 (right, right, wrong) the
\* analyzer reports an outlier count of 1.
C21_Claim ==
  (analysis.done /\ stored = SlowThird) => analysis.outlierCount = 1

\* C21, amended: for the latencies 250, 260 and 5000 (right, right, wrong)
\* the analyzer reports no outlier; the mean is 1837 ms, the accuracy 0.67
\* and the score 40.
C21_NoOutlierAmongThree ==
  (analysis.done /\ stored = SlowThird) =>
    /\ analysis.outlierCount = 0
    /\ analysis.meanResponseTime = 1837
    /\ analysis.accuracy = 67
    /\ analysis.qualityScore = 40

C21_Witness ==
  analysis.done /\ stored = SlowThird

\* C22: the outlier count is the number of outcomes whose latency differs
\* from the mean latency of all outcomes by more than 3 population standard
\* deviations, and the mean and the accuracy are taken over the same
\* outcomes, outliers included.
C22_Claim ==
  (analysis.done /\ Len(stored) > 0) =>
    /\ analysis.outlierCount = farOutCount(stored)
    /\ analysis.meanResponseTime = round(sumResponseTime(stored), Len(stored))
    /\ analysis.accuracy = round(100 * accurateCount(stored), Len(stored))

\* C23: the quality score is 100 minus 30 for an accuracy below 0.70, minus
\* 20 for a mean response time below 300 ms or above 2000 ms, minus 20 for an
\* outlier fraction above 0.10, minus 30 for fewer than 20 analysed outcomes,
\* clamped to 0..100; for every outcome list it lies in 0..100.
C23_Claim ==
  analysis.done =>
    /\ analysis.qualityScore \in 0..100
    /\ Len(analysed) > 0 =>
         analysis.qualityScore =
           max0(100 - (IF 10 * accurateCount(analysed) < 7 * Len(analysed) THEN 30 ELSE 0)
                    - (IF \/ sumResponseTime(analysed) < 300 * Len(analysed)
                          \/ sumResponseTime(analysed) > 2000 * Len(analysed)
                       THEN 20 ELSE 0)
                    - (IF 10 * analysis.outlierCount > Len(analysed) THEN 20 ELSE 0)
                    - (IF Len(analysed) < 20 THEN 30 ELSE 0))

C23_Witness ==
  /\ analysis.done
  /\ 10 * analysis.outlierCount > Len(analysed)
  /\ 10 * accurateCount(analysed) >= 7 * Len(analysed)
  /\ analysis.qualityScore = 50

\* C24: the accuracy is the number of outcomes with correct = true divided
\* by the number of all outcomes passed in, those with latency 0 included.
C24_Claim ==
  (analysis.done /\ Len(stored) > 0) =>
    analysis.accuracy = round(100 * accurateCount(stored), Len(stored))

\* C25: the analyzer returns a result for every input; for an empty list it
\* is the zeroed result (mean 0, accuracy 0, no outlier, no effect, score 0),
\* and for a list whose latencies are all equal the outlier count is 0.
C25_Claim ==
  analysis.done =>
    /\ stored = <<>> =>
         /\ analysis.meanResponseTime = 0 /\ analysis.accuracy = 0
         /\ analysis.outlierCount = 0 /\ analysis.qualityScore = 0
         /\ ~analysis.stroopEffect.present
    /\ (\A j, k \in DOMAIN stored : stored[j].responseTime = stored[k].responseTime)
         => analysis.outlierCount = 0

C25_Witness ==
  /\ analysis.done
  /\ Len(stored) >= 11
  /\ \A j, k \in DOMAIN stored : stored[j].responseTime = stored[k].responseTime
  /\ stored[1].responseTime > 0

\* C26: for every list with fewer than 11 outcomes of positive latency the
\* analyzer reports no outlier.
C26_Claim ==
  (analysis.done /\ Len(analysed) < 11) => analysis.outlierCount = 0

\* ------------------------------------------------------------ server claims

\* C27: whenever POST /api/responses answers 400 or 500 no record has been
\* added to the storage, and whenever valid data is submitted exactly one
\* record is added and the answer is 201.
C27_Claim ==
  \A k \in DOMAIN replies :
    /\ replies[k].status \in {400, 500} => replies[k].added = 0
    /\ replies[k].valid => (replies[k].added = 1 /\ replies[k].status = 201)

\* ---------------------------------------------- claims: the participant page

\* C28: whatever the participant submits or clicks in the participant view,
\* the current block index is the index of a block of the study
C28_Claim ==
  participant => currentBlockIndex \in 0 .. (Len(experimentBlocks) - 1)

\* --------------------------------------------- claims: the image recall task

\* the place of a phase in instructions, study, distractor, recall, complete
phaseRank(ph) ==
  CASE ph = "instructions" -> 0
    [] ph = "study" -> 1
    [] ph = "distractor" -> 2
    [] ph = "recall" -> 3
    [] ph = "complete" -> 4

\* a step keeps the phase or moves it to the next one
PhaseForward ==
  phaseRank(taskPhase') \in {phaseRank(taskPhase), phaseRank(taskPhase) + 1}

\* the study phase starts at image 0, shows the images one by one and is left
\* from the last image only
StudyInOrder ==
  /\ (taskPhase # "study" /\ taskPhase' = "study") => currentImageIndex' = 0
  /\ (taskPhase = "study" /\ taskPhase' = "study") =>
       \/ currentImageIndex' = currentImageIndex
       \/ currentImageIndex' = currentImageIndex + 1 /\ currentImageIndex' < Len(studyImages)
  /\ (taskPhase = "study" /\ taskPhase' # "study") =>
       currentImageIndex = Len(studyImages) - 1

\* the countdown of the recall phase has not run out while the phase lasts
CountdownEnds ==
  /\ (taskPhase = "recall" /\ taskPhase' = "recall") => timeRemaining' > 0
  /\ (taskPhase = "recall" /\ timeRemaining' < timeRemaining) =>
       timeRemaining' = (IF timeRemaining <= 1000 THEN 0 ELSE timeRemaining - 1000)

\* C29: the phases of the image recall task only move forward, one at a
\* time; the study phase shows the images in order, one more per expiry of
\* its timer, and gives way to the distractor when the timer of the last
\* image fires; the recall phase always ends, at the latest when its
\* countdown reaches 0
C29_Claim ==
  /\ [][PhaseForward /\ StudyInOrder /\ CountdownEnds]_vars
  /\ (taskPhase = "recall") ~> (taskPhase = "complete")

\* the countdown has ended a recall phase that followed several images
C29_Witness ==
  /\ taskPhase = "complete"
  /\ ~summary.sent
  /\ timeRemaining = 0
  /\ Len(studyImages) >= 2
  /\ currentImageIndex = Len(studyImages) - 1
  /\ Len(recallResponses) > 0

\* C30: the recall accuracy is between 0 and 1: however many entries are
\* submitted, the same name several times included, the entries counted as
\* correct are no more than the images studied
C30_Claim ==
  taskPhase \in {"recall", "complete"} =>
    correctRecalls(recallResponses, studyImages) <= Len(studyImages)

====
